---- MODULE Spec2Model ----
(***************************************************************************)
(* A model of shuffly's two-phase external shuffle (src/src/shuffle.rs).   *)
(*                                                                         *)
(* The state is the file system the engine works on (input files, the     *)
(* output directory with its hidden temporary bucket files and its final  *)
(* output files) and the locals of ShuffleConfig::new, shuffle_jsonl,     *)
(* phase_1_distribute, flush_line_buffer and phase_2_shuffle_and_write.   *)
(* Every await point that performs I/O is one action; the environment may *)
(* fail any of them.  A first run may be followed by a second run of the  *)
(* same configuration on the directory the first run left behind.         *)
(* SpecWide runs three input files without I/O failures, the second time   *)
(* with the paths listed in the opposite order; SpecSeeds runs two fixed   *)
(* files under the seeds at the ends of every limb's range; SpecLive is    *)
(* one run in which no await blocks for ever; SpecScan runs the CLI's      *)
(* directory scan (src/src/main.rs) on small directory trees.              *)
(*                                                                         *)
(* Scaling.  Bytes are drawn from a five-letter alphabet.  An input file  *)
(* is its decoded byte stream plus its on-disk size: the size estimator   *)
(* stats the stored file, which for a gzip input (whose header may carry  *)
(* arbitrarily long name and comment fields) is unrelated to the length   *)
(* of the decoded stream.  usize is narrowed to UsizeBits bits.  The      *)
(* three batching constants of phase_1_distribute keep their names but    *)
(* are scaled down (16 readers -> 2, 128 writers -> 1, 1 GiB -> 2 bytes)   *)
(* so that batches, chunks and intermediate flushes happen on inputs of a *)
(* few lines.                                                              *)
(***************************************************************************)
EXTENDS Integers, Sequences, FiniteSets, TLC

----------------------------------------------------------------------------
(* Bounds of the model *)

\* width of usize in the model
UsizeBits == 24
\* input files one batch of phase_1_distribute opens in the model
InputBatch == 2
\* bucket files one chunk of flush_line_buffer opens in the model
OutputChunk == 1
\* bytes the line buffer holds before it is flushed in the model
BufferBytes == 2
\* I/O failures the environment causes in one behaviour
MaxFaults == 1

\* const MAX_OPEN_INPUT_FILES: usize = 16, scaled
MAX_OPEN_INPUT_FILES == InputBatch
\* const MAX_OPEN_OUTPUT_FILES: usize = 128, scaled
MAX_OPEN_OUTPUT_FILES == OutputChunk
\* const MAX_BUFFER_SIZE: usize = 1024 * 1024 * 1024, scaled
MAX_BUFFER_SIZE == BufferBytes

----------------------------------------------------------------------------
(* Values *)

\* Option<T>: None is the empty tuple, Some(x) the one-element tuple
None == <<>>
Some(x) == <<x>>

LF == "LF"
CR == "CR"
SP == "SP"
Whitespace == {SP, CR, LF}

MiB == 1024 * 1024
UsizeMod == 2 ^ UsizeBits

\* u64 seeds are four 16-bit limbs, most significant first
Limb == 2 ^ 16
U64Max == <<Limb - 1, Limb - 1, Limb - 1, Limb - 1>>

\* the input paths on the command line, named in lexicographic order
Paths == {1, 2}

\* decoded byte streams of the input files
Contents ==
    { <<>>,
      <<"a", LF>>,
      <<SP, LF, "b">>,
      <<"a", CR, CR, LF>> }

\* on-disk sizes of the input files
Sizes == {0, MiB + 1}

\* an input path: a missing file, or a file with its on-disk size and stream
InputFiles ==
    {[exists |-> FALSE, size |-> 0, bytes |-> <<>>]}
        \cup [exists : {TRUE}, size : Sizes, bytes : Contents]

\* config.seed
Seeds == {None, Some(<<0, 0, 0, 5>>), Some(U64Max)}
\* config.max_size_mb
Ceilings == {0, 1, 32}

----------------------------------------------------------------------------
(* Sequences *)

Range(s) == {s[k] : k \in DOMAIN s}

Min(a, b) == IF a < b THEN a ELSE b

Take(s, k) == SubSeq(s, 1, k)
Drop(s, k) == SubSeq(s, k + 1, Len(s))

RECURSIVE Concat(_)
Concat(ss) == IF ss = <<>> THEN <<>> ELSE Head(ss) \o Concat(Tail(ss))

Swap(s, i, j) == [s EXCEPT ![i] = s[j], ![j] = s[i]]

\* the orders in which a set can be listed
Orders(S) ==
    {q \in [1 .. Cardinality(S) -> S] : \A i, j \in DOMAIN q : q[i] = q[j] => i = j}

RECURSIVE Insert(_, _)
Insert(x, s) ==
    IF s = <<>> THEN <<x>>
    ELSE IF x <= Head(s) THEN <<x>> \o s
    ELSE <<Head(s)>> \o Insert(x, Tail(s))

\* the list left as it was given
SortNot(s) == s

RECURSIVE Sort(_)
Sort(s) == IF s = <<>> THEN <<>> ELSE Insert(Head(s), Sort(Tail(s)))

----------------------------------------------------------------------------
(* Line Source: tokio's Lines::next_line over a decoded byte stream *)

\* index of the first LF of s, 0 when there is none
FirstLF(s) ==
    IF \E k \in DOMAIN s : s[k] = LF
    THEN CHOOSE k \in DOMAIN s : s[k] = LF /\ \A m \in 1 .. k - 1 : s[m] # LF
    ELSE 0

\* read_line up to and including the next LF, then strip one "\n" and,
\* only after a stripped "\n", one "\r"; None at end of stream
NextLine(bytes, pos) ==
    LET rest == Drop(bytes, pos)
        k    == FirstLF(rest)
        buf  == IF k = 0 THEN rest ELSE Take(rest, k)
        noLF == IF k = 0 THEN buf ELSE Take(buf, Len(buf) - 1)
        line == IF k # 0 /\ noLF # <<>> /\ noLF[Len(noLF)] = CR
                THEN Take(noLF, Len(noLF) - 1) ELSE noLF
    IN  IF rest = <<>> THEN None ELSE Some([line |-> line, pos |-> pos + Len(buf)])

\* is_empty without the trim
IsBlankUntrimmed(line) == line = <<>>

\* line.trim().is_empty()
IsBlank(line) == \A k \in DOMAIN line : line[k] \in Whitespace

RECURSIVE LinesFrom(_, _)
LinesFrom(bytes, pos) ==
    LET r == NextLine(bytes, pos)
    IN  IF r = None THEN <<>> ELSE <<r[1].line>> \o LinesFrom(bytes, r[1].pos)

\* every line of a stream, in order
AllLines(bytes) == LinesFrom(bytes, 0)

\* the lines followed by "\n" each, as write_all(line) ; write_all(b"\n") emits them
Emit(lines) == Concat([k \in DOMAIN lines |-> lines[k] \o <<LF>>])

----------------------------------------------------------------------------
(* File names *)

Digit == <<"0", "1", "2", "3", "4", "5", "6", "7", "8", "9">>

RECURSIVE Decimal(_)
Decimal(n) ==
    IF n < 10 THEN <<Digit[n + 1]>> ELSE Decimal(n \div 10) \o <<Digit[(n % 10) + 1]>>

\* format!("{:04}", n)
Pad4(n) ==
    LET d == Decimal(n)
    IN  [k \in 1 .. (IF Len(d) < 4 THEN 4 - Len(d) ELSE 0) |-> "0"] \o d

\* format!(".{}_temp_{:04}.jsonl", config.output_name, i)
TempPath(i) == <<".", "name", "_temp_">> \o Pad4(i) \o <<".jsonl">>

OutputFilenameBare(n, i) == <<"name", ".jsonl">>

\* the part suffix taken from the bucket count
OutputFilenameOfCount(n, i) ==
    IF n = 1 THEN <<"name", ".jsonl">>
    ELSE <<"name", "_part_">> \o Pad4(n) \o <<".jsonl">>

\* the part suffix numbered from zero
OutputFilenameZeroBased(n, i) ==
    IF n = 1 THEN <<"name", ".jsonl">>
    ELSE <<"name", "_part_">> \o Pad4(i) \o <<".jsonl">>

\* the output file name of bucket i (0-based) out of n buckets
OutputFilename(n, i) ==
    IF n = 1 THEN <<"name", ".jsonl">>
    ELSE <<"name", "_part_">> \o Pad4(i + 1) \o <<".jsonl">>

----------------------------------------------------------------------------
(* Size Estimator and Bucket Planner, in usize arithmetic *)

Panic == 0 - 1

\* the outcomes of a usize operation whose exact result is x: a debug build
\* panics on overflow, a release build wraps
Usize(x) == IF 0 <= x /\ x < UsizeMod THEN {x} ELSE {Panic, x % UsizeMod}

\* apply a set-valued step to every non-panic outcome
Then(xs, F(_)) == UNION {IF x = Panic THEN {Panic} ELSE F(x) : x \in xs}

RECURSIVE SumSizes(_, _)
\* total_size += metadata.len() as usize, file by file
SumSizes(sizes, acc) ==
    IF sizes = <<>> THEN {acc}
    ELSE Then(Usize(acc + Head(sizes)), LAMBDA t : SumSizes(Tail(sizes), t))

DivUsize(a, b) == IF b = 0 THEN {Panic} ELSE {a \div b}

Max1(x) == IF x < 1 THEN 1 ELSE x

\* ((total + max_size_bytes - 1) / max_size_bytes).max(1) with
\* max_size_bytes = max_size_mb * 1024 * 1024
EstimatedNumFiles(total, max_size_mb) ==
    Then(Usize(max_size_mb * 1024), LAMBDA k :
    Then(Usize(k * 1024), LAMBDA max_size_bytes :
    Then(Usize(total + max_size_bytes), LAMBDA a :
    Then(Usize(a - 1), LAMBDA b :
    Then(DivUsize(b, max_size_bytes), LAMBDA q : {Max1(q)})))))

----------------------------------------------------------------------------
(* RNG Policy.  StdRng is a library generator; the model stands a small    *)
(* deterministic generator in for it.  rng() (no seed) draws from the      *)
(* operating system: every draw may return any value of its range.  A     *)
(* generator remembers the seed it was built from.                         *)

OsRng == [kind |-> "os", s |-> 0, seed |-> None]

\* StdRng::seed_from_u64
SeedFromU64(seed) ==
    [kind |-> "seeded", s |-> (seed[1] + seed[2] + seed[3] + seed[4]) % 16,
     seed |-> Some(seed)]

\* an addition that stops at u64::MAX
SaturatingAdd1(seed) ==
    IF seed[4] + 1 < Limb THEN <<seed[1], seed[2], seed[3], seed[4] + 1>>
    ELSE IF seed[3] + 1 < Limb THEN <<seed[1], seed[2], seed[3] + 1, 0>>
    ELSE IF seed[2] + 1 < Limb THEN <<seed[1], seed[2] + 1, 0, 0>>
    ELSE IF seed[1] + 1 < Limb THEN <<seed[1] + 1, 0, 0, 0>>
    ELSE seed

\* seed.wrapping_add(1)
WrappingAdd1(seed) ==
    IF seed[4] + 1 < Limb THEN <<seed[1], seed[2], seed[3], seed[4] + 1>>
    ELSE IF seed[3] + 1 < Limb THEN <<seed[1], seed[2], seed[3] + 1, 0>>
    ELSE IF seed[2] + 1 < Limb THEN <<seed[1], seed[2] + 1, 0, 0>>
    ELSE IF seed[1] + 1 < Limb THEN <<seed[1] + 1, 0, 0, 0>>
    ELSE <<0, 0, 0, 0>>

Phase1RngFresh(seed) == OsRng

\* match config.seed { Some(seed) => StdRng::seed_from_u64(seed), None => rng() }
Phase1Rng(seed) == IF seed = None THEN OsRng ELSE SeedFromU64(seed[1])

\* ... Some(seed) => StdRng::seed_from_u64(seed.wrapping_add(1)) ...
Phase2Rng(seed) == IF seed = None THEN OsRng ELSE SeedFromU64(WrappingAdd1(seed[1]))

\* rng.random_range(0..n): the possible (value, generator after) pairs
RandomRange(rng, n) ==
    IF rng.kind = "os" THEN {[v |-> v, rng |-> rng] : v \in 0 .. n - 1}
    ELSE LET s == (rng.s + 7) % 16
         IN  {[v |-> (s * n) \div 16, rng |-> [rng EXCEPT !.s = s]]}

RECURSIVE ShuffleFrom(_, _, _)
ShuffleFrom(lines, rng, i) ==
    IF i > Len(lines) THEN {[lines |-> lines, rng |-> rng]}
    ELSE UNION {ShuffleFrom(Swap(lines, i, d.v + 1), d.rng, i + 1)
                    : d \in RandomRange(rng, i)}

\* lines.shuffle(&mut rng): Fisher-Yates, one draw per position from the second
Shuffle(lines, rng) == ShuffleFrom(lines, rng, 2)

----------------------------------------------------------------------------
(* State *)

VARIABLES
    inputs,   \* the input paths: [Paths -> InputFiles]
    outdir,   \* what config.output_dir names: "dir", "absent" or "file"
    dir,      \* the files of the output directory: file name -> bytes
    config,   \* the ShuffleConfig
    pc,       \* the await point the run is at
    result,   \* "none" while running, then "ok", "err", "panic" or "config_err"
    p1,       \* locals of phase_1_distribute
    fl,       \* locals of flush_line_buffer
    p2,       \* locals of phase_2_shuffle_and_write
    run,      \* 1 in the first run, 2 in the second
    prev,     \* what the first run returned, once the second has started
    hist,     \* history of the current run, and the I/O failures still to come
    scan      \* locals and result of collect_files_by_extension (src/src/main.rs)

vars == <<inputs, outdir, dir, config, pc, result, p1, fl, p2, run, prev, hist, scan>>

\* the file system
Exists(name) == outdir = "dir" /\ name \in DOMAIN dir
Put(d, name, bytes) == [x \in DOMAIN d \cup {name} |-> IF x = name THEN bytes ELSE d[x]]
RemoveNothing(d, name) == d
Remove(d, name) == [x \in DOMAIN d \ {name} |-> d[x]]
NoFiles == [x \in {} |-> <<>>]

\* LineBuffer::new
LineBufferNew == [lines |-> <<>>, total_size |-> 0]

P1Init ==
    [temp_files         |-> <<>>,
     rng                |-> OsRng,
     total_lines        |-> 0,
     line_buffer        |-> LineBufferNew,
     sorted_input_files |-> <<>>,
     batch              |-> 1,
     readers            |-> <<>>,
     active_readers     |-> <<>>,
     idx                |-> 1,
     finished_readers   |-> <<>>]

FlInit ==
    [ret           |-> "none",
     lines_by_file |-> NoFiles,
     file_indices  |-> <<>>,
     chunk         |-> 1,
     writers       |-> <<>>,
     w             |-> 1]

P2Init ==
    [i            |-> 0,
     rng          |-> OsRng,
     lines        |-> <<>>,
     output_files |-> <<>>]

HistInit ==
    [budget   |-> 0,
     phase    |-> 0,
     fault    |-> FALSE,
     stale    |-> {},
     created  |-> {},
     flushed  |-> {},
     removed  |-> {},
     assigned |-> <<>>,
     read     |-> <<>>,
     reads    |-> <<>>,
     loaded   |-> <<>>,
     p1dir    |-> NoFiles]

\* collect_files_by_extension is not running
ScanIdle == [pc |-> "idle"]

PrevInit == [result |-> "none", output_files |-> <<>>, dir |-> NoFiles, stale |-> {}]

Init ==
    /\ inputs \in [Paths -> InputFiles]
    /\ outdir \in {"dir", "absent", "file"}
    /\ dir = NoFiles
    /\ config \in [input_files : Orders(Paths), max_size_mb : Ceilings, seed : Seeds]
    /\ pc = "new"
    /\ result = "none"
    /\ p1 = P1Init
    /\ fl = FlInit
    /\ p2 = P2Init
    /\ run = 1
    /\ prev = PrevInit
    /\ hist = [HistInit EXCEPT !.budget = MaxFaults]
    /\ scan = ScanIdle

\* return Err(e): the ? operator
ReturnErr ==
    /\ pc' = "done"
    /\ result' = "err"

\* an I/O operation fails for a reason of the environment's
Fault ==
    /\ hist.budget > 0
    /\ ReturnErr
    /\ hist' = [hist EXCEPT !.fault = TRUE, !.budget = hist.budget - 1]

----------------------------------------------------------------------------
(* ShuffleConfig::new and parse_input_files *)

IsTempPath(name) == name[1] = "."

\* parse_input_files: every listed path must exist
AllInputsExist(files) == \A k \in DOMAIN files : inputs[files[k]].exists

New ==
    /\ pc = "new"
    /\ IF ~AllInputsExist(config.input_files)
       THEN /\ pc' = "done"
            /\ result' = "config_err"
            /\ UNCHANGED <<outdir, hist>>
       ELSE \/ /\ pc' = "ready"
               \* if !output_dir.exists() { fs::create_dir_all(&output_dir)?; }
               /\ outdir' = IF outdir = "absent" THEN "dir" ELSE outdir
               /\ UNCHANGED <<result, hist>>
            \/ \* fs::create_dir_all(&output_dir)? fails
               /\ outdir = "absent"
               /\ hist.budget > 0
               /\ pc' = "done"
               /\ result' = "config_err"
               /\ hist' = [hist EXCEPT !.fault = TRUE, !.budget = hist.budget - 1]
               /\ UNCHANGED outdir
    /\ UNCHANGED <<scan, inputs, dir, config, p1, fl, p2, run, prev>>

----------------------------------------------------------------------------
(* phase_1_distribute *)

\* estimate_total_input_size, the bucket count, the temp paths, the RNG and
\* the sorted input list
Phase1Start ==
    /\ pc = "ready"
    /\ LET files == config.input_files
           sizes == [k \in DOMAIN files |-> inputs[files[k]].size]
           plans == Then(SumSizes(sizes, 0),
                         LAMBDA total : EstimatedNumFiles(total, config.max_size_mb))
       IN  \/ /\ \E n \in plans :
                   IF n = Panic
                   THEN /\ pc' = "done"
                        /\ result' = "panic"
                        /\ p1' = p1
                   ELSE /\ pc' = "p1_open"
                        /\ result' = result
                        /\ p1' = [P1Init EXCEPT
                                    !.temp_files = [i \in 1 .. n |-> TempPath(i - 1)],
                                    !.rng = Phase1Rng(config.seed),
                                    !.sorted_input_files = Sort(files)]
              /\ hist' = [hist EXCEPT !.phase = 1,
                                      !.stale = {x \in DOMAIN dir : IsTempPath(x)}]
           \/ \* tokio::fs::metadata(file).await?
              /\ Fault
              /\ p1' = p1
    /\ UNCHANGED <<scan, inputs, outdir, dir, config, fl, p2, run, prev>>

\* every remaining file in one batch
BatchLenAll(p) == Len(p.sorted_input_files) - p.batch + 1

\* the files of the batch that starts at p.batch
BatchLen(p) == Min(MAX_OPEN_INPUT_FILES, Len(p.sorted_input_files) - p.batch + 1)

\* File::open(input_file).await? and readers.push(reader.lines())
OpenInput ==
    /\ pc = "p1_open"
    /\ \/ /\ LET readers == Append(p1.readers, 0)
             IN  IF Len(readers) = BatchLen(p1)
                 THEN /\ p1' = [p1 EXCEPT
                                  !.readers = readers,
                                  !.active_readers = [k \in 1 .. Len(readers) |-> k],
                                  !.idx = 1,
                                  !.finished_readers = <<>>]
                      /\ pc' = "p1_read"
                 ELSE /\ p1' = [p1 EXCEPT !.readers = readers]
                      /\ pc' = pc
          /\ UNCHANGED <<result, hist>>
       \/ /\ Fault
          /\ p1' = p1
    /\ UNCHANGED <<scan, inputs, outdir, dir, config, fl, p2, run, prev>>

\* the finished positions taken for reader indices
RemoveFinishedByValue(active, finished) ==
    SelectSeq(active, LAMBDA r : r \notin Range(finished))

\* active_readers.remove(idx) for the finished positions, last first
RemoveFinished(active, finished) ==
    LET keep == {k \in DOMAIN active : k \notin Range(finished)}
        pos  == Sort(CHOOSE q \in Orders(keep) : TRUE)
    IN  [k \in DOMAIN pos |-> active[pos[k]]]

\* where the round-robin loops go after the body for position p.idx: the next
\* position, the next pass, the next batch, or the code after the loops
AfterLine(p) ==
    IF p.idx < Len(p.active_readers)
    THEN [p1 |-> [p EXCEPT !.idx = p.idx + 1], pc |-> "p1_read"]
    ELSE LET active == RemoveFinished(p.active_readers, p.finished_readers)
             q      == [p EXCEPT !.active_readers = active,
                                 !.finished_readers = <<>>,
                                 !.idx = 1]
             next   == p.batch + Len(p.readers)
         IN  IF active # <<>> THEN [p1 |-> q, pc |-> "p1_read"]
             ELSE IF next <= Len(p.sorted_input_files)
             THEN [p1 |-> [q EXCEPT !.batch = next, !.readers = <<>>], pc |-> "p1_open"]
             ELSE [p1 |-> [q EXCEPT !.batch = next, !.readers = <<>>],
                   \* if !line_buffer.is_empty() { flush_line_buffer(..).await?; }
                   pc |-> IF q.line_buffer.lines # <<>> THEN "fl_final" ELSE "p2_start"]

\* the pair pushed at the front of the buffer
AddLineFront(b, temp_index, line) ==
    [lines |-> <<<<temp_index, line>>>> \o b.lines,
     total_size |-> b.total_size + Len(line)]

\* LineBuffer::add_line
AddLine(b, temp_index, line) ==
    [lines |-> Append(b.lines, <<temp_index, line>>),
     total_size |-> b.total_size + Len(line)]

\* full only above the threshold
IsFullAbove(b, max_size) == b.total_size > max_size

\* LineBuffer::is_full
IsFull(b, max_size) == b.total_size >= max_size

\* one iteration of the round-robin body: readers[reader_idx].next_line().await?
ReadLine ==
    /\ pc = "p1_read"
    /\ LET reader_idx == p1.active_readers[p1.idx]
           path == p1.sorted_input_files[p1.batch + reader_idx - 1]
           r    == NextLine(inputs[path].bytes, p1.readers[reader_idx])
       IN  \/ /\ r = None
              /\ LET a == AfterLine([p1 EXCEPT
                               !.finished_readers = Append(p1.finished_readers, p1.idx)])
                 IN  p1' = a.p1 /\ pc' = a.pc
              /\ hist' = [hist EXCEPT !.reads = Append(hist.reads, <<path, None>>)]
              /\ UNCHANGED result
           \/ /\ r # None
              /\ IsBlank(r[1].line)
              /\ LET a == AfterLine([p1 EXCEPT !.readers[reader_idx] = r[1].pos])
                 IN  p1' = a.p1 /\ pc' = a.pc
              /\ hist' = [hist EXCEPT
                            !.read = Append(hist.read, r[1].line),
                            !.reads = Append(hist.reads, <<path, Some(r[1].line)>>)]
              /\ UNCHANGED result
           \/ /\ r # None
              /\ ~IsBlank(r[1].line)
              /\ \E d \in RandomRange(p1.rng, Len(p1.temp_files)) :
                   LET q == [p1 EXCEPT
                               !.readers[reader_idx] = r[1].pos,
                               !.rng = d.rng,
                               !.line_buffer = AddLine(p1.line_buffer, d.v, r[1].line),
                               !.total_lines = p1.total_lines + 1]
                       a == AfterLine(q)
                   IN  /\ IF IsFull(q.line_buffer, MAX_BUFFER_SIZE)
                          THEN p1' = q /\ pc' = "fl_full"
                          ELSE p1' = a.p1 /\ pc' = a.pc
                       /\ hist' = [hist EXCEPT
                                     !.read = Append(hist.read, r[1].line),
                                     !.reads = Append(hist.reads, <<path, Some(r[1].line)>>),
                                     !.assigned = Append(hist.assigned, <<d.v, r[1].line>>)]
              /\ UNCHANGED result
           \/ /\ Fault
              /\ p1' = p1
    /\ UNCHANGED <<scan, inputs, outdir, dir, config, fl, p2, run, prev>>

----------------------------------------------------------------------------
(* flush_line_buffer *)

RECURSIVE Group(_, _)
\* the lines buffered for temp file index k, in buffer order
Group(pairs, k) ==
    IF pairs = <<>> THEN <<>>
    ELSE (IF Head(pairs)[1] = k THEN <<Head(pairs)[2]>> ELSE <<>>) \o Group(Tail(pairs), k)

\* lines_by_file.entry(temp_index).or_default().push(line) over buffer.lines.drain(..)
LinesByFile(pairs) ==
    [k \in {pairs[j][1] : j \in DOMAIN pairs} |-> Group(pairs, k)]

\* every flush taken for the final one
ReturnFromFlushToPhase2(p, ret) ==
    [p1 |-> [p EXCEPT !.line_buffer = LineBufferNew], pc |-> "p2_start"]

\* LineBuffer::clear, and back to the caller of flush_line_buffer
ReturnFromFlush(p, ret) ==
    LET q == [p EXCEPT !.line_buffer = LineBufferNew]
    IN  IF ret = "fl_full" THEN AfterLine(q) ELSE [p1 |-> q, pc |-> "p2_start"]

\* the entry of flush_line_buffer: group the buffer by temp file index; the
\* HashMap lists its keys in an order of its own
FlushStart ==
    /\ pc \in {"fl_full", "fl_final"}
    /\ IF p1.line_buffer.lines = <<>>
       THEN /\ p1' = ReturnFromFlush(p1, pc).p1
            /\ pc' = ReturnFromFlush(p1, pc).pc
            /\ fl' = fl
       ELSE /\ \E order \in Orders(DOMAIN LinesByFile(p1.line_buffer.lines)) :
                 fl' = [FlInit EXCEPT
                          !.ret = pc,
                          !.lines_by_file = LinesByFile(p1.line_buffer.lines),
                          !.file_indices = order]
            /\ p1' = [p1 EXCEPT !.line_buffer.lines = <<>>]
            /\ pc' = "fl_open"
    /\ UNCHANGED <<scan, inputs, outdir, dir, config, result, p2, run, prev, hist>>

\* the files of the chunk that starts at f.chunk
ChunkLen(f) == Min(MAX_OPEN_OUTPUT_FILES, Len(f.file_indices) - f.chunk + 1)

OpenTruncate(d, path) == Put(d, path, <<>>)

\* OpenOptions::new().create(true).append(true).open(path): the file is created
\* empty when it is missing and kept as it is otherwise
OpenAppend(d, path) == IF path \in DOMAIN d THEN d ELSE Put(d, path, <<>>)

\* the open of the next temp file of the chunk, and writers.push(BufWriter::new(file))
FlushOpen ==
    /\ pc = "fl_open"
    /\ LET file_idx == fl.file_indices[fl.chunk + Len(fl.writers)]
           path     == p1.temp_files[file_idx + 1]
           writers  == Append(fl.writers, [file_idx |-> file_idx, buf |-> <<>>])
       IN  \/ /\ outdir = "dir"
              /\ dir' = OpenAppend(dir, path)
              /\ fl' = [fl EXCEPT !.writers = writers]
              /\ pc' = IF Len(writers) = ChunkLen(fl) THEN "fl_write" ELSE pc
              /\ UNCHANGED <<result, hist>>
           \/ \* the output directory is not a directory
              /\ outdir # "dir"
              /\ ReturnErr
              /\ UNCHANGED <<dir, fl, hist>>
           \/ /\ Fault
              /\ UNCHANGED <<dir, fl>>
    /\ UNCHANGED <<scan, inputs, outdir, config, p1, p2, run, prev>>

\* write_all(line) ; write_all(b"\n") for every line of every writer of the
\* chunk: the bytes stay in the BufWriters
FlushWrite ==
    /\ pc = "fl_write"
    /\ fl' = [fl EXCEPT
                !.writers = [k \in DOMAIN fl.writers |->
                    [fl.writers[k] EXCEPT
                        !.buf = Emit(fl.lines_by_file[fl.writers[k].file_idx])]],
                !.w = 1]
    /\ pc' = "fl_flush"
    /\ UNCHANGED <<scan, inputs, outdir, dir, config, result, p1, p2, run, prev, hist>>

\* writer.flush().await? for the next writer of the chunk: its bytes are
\* appended to its temp file; a failing flush may have appended a part of them
FlushWriter ==
    /\ pc = "fl_flush"
    /\ LET writer == fl.writers[fl.w]
           path   == p1.temp_files[writer.file_idx + 1]
           next   == fl.chunk + Len(fl.writers)
       IN  \/ /\ dir' = Put(dir, path, dir[path] \o writer.buf)
              /\ IF fl.w < Len(fl.writers)
                 THEN /\ fl' = [fl EXCEPT !.w = fl.w + 1]
                      /\ UNCHANGED <<pc, p1>>
                 ELSE IF next <= Len(fl.file_indices)
                 THEN /\ fl' = [fl EXCEPT !.chunk = next, !.writers = <<>>, !.w = 1]
                      /\ pc' = "fl_open"
                      /\ p1' = p1
                 ELSE /\ fl' = [fl EXCEPT !.chunk = next, !.writers = <<>>, !.w = 1]
                      /\ p1' = ReturnFromFlush(p1, fl.ret).p1
                      /\ pc' = ReturnFromFlush(p1, fl.ret).pc
              /\ UNCHANGED <<result, hist>>
           \/ /\ \E k \in 0 .. Len(writer.buf) - 1 :
                    dir' = Put(dir, path, dir[path] \o Take(writer.buf, k))
              /\ Fault
              /\ UNCHANGED <<fl, p1>>
    /\ UNCHANGED <<scan, inputs, outdir, config, p2, run, prev>>

----------------------------------------------------------------------------
(* phase_2_shuffle_and_write *)

\* the entry of phase_2_shuffle_and_write: output_files and the Phase-2 RNG
Phase2Start ==
    /\ pc = "p2_start"
    /\ p2' = [P2Init EXCEPT !.rng = Phase2Rng(config.seed)]
    /\ hist' = [hist EXCEPT !.phase = 2, !.p1dir = dir]
    /\ IF p1.temp_files = <<>>
       THEN pc' = "done" /\ result' = "ok"
       ELSE pc' = "p2_open" /\ result' = result
    /\ UNCHANGED <<scan, inputs, outdir, dir, config, p1, fl, run, prev>>

\* the lines that pass `if !line.trim().is_empty()`
NonBlank(lines) == SelectSeq(lines, LAMBDA l : ~IsBlank(l))

\* the loop over temp_files goes on to bucket q.i + 1, or the function returns
\* Ok(output_files)
NextBucket(q) ==
    /\ p2' = [q EXCEPT !.i = q.i + 1, !.lines = <<>>]
    /\ IF q.i + 1 < Len(p1.temp_files)
       THEN pc' = "p2_open" /\ result' = result
       ELSE pc' = "done" /\ result' = "ok"

\* File::open(temp_file).await?
P2Open ==
    /\ pc = "p2_open"
    /\ \/ /\ Exists(p1.temp_files[p2.i + 1])
          /\ pc' = "p2_read"
          /\ UNCHANGED <<result, hist>>
       \/ \* no such file
          /\ ~Exists(p1.temp_files[p2.i + 1])
          /\ ReturnErr
          /\ UNCHANGED hist
       \/ Fault
    /\ UNCHANGED <<scan, inputs, outdir, dir, config, p1, fl, p2, run, prev>>

\* while let Some(line) = line_stream.next_line().await? { .. }, and the skip
\* of an empty bucket
P2Read ==
    /\ pc = "p2_read"
    /\ \/ LET lines == NonBlank(AllLines(dir[p1.temp_files[p2.i + 1]]))
          IN  /\ IF lines = <<>>
                 THEN NextBucket(p2)
                 ELSE /\ p2' = [p2 EXCEPT !.lines = lines]
                      /\ pc' = "p2_create"
                      /\ result' = result
              /\ hist' = [hist EXCEPT !.loaded = Append(hist.loaded, <<p2.i, lines>>)]
       \/ /\ Fault
          /\ p2' = p2
    /\ UNCHANGED <<scan, inputs, outdir, dir, config, p1, fl, run, prev>>

\* lines.shuffle(&mut rng), the output file name and File::create(&output_path).await?
P2Create ==
    /\ pc = "p2_create"
    /\ \E sh \in Shuffle(p2.lines, p2.rng) :
         /\ p2' = [p2 EXCEPT !.lines = sh.lines, !.rng = sh.rng]
         /\ \/ /\ dir' = Put(dir, OutputFilename(Len(p1.temp_files), p2.i), <<>>)
               /\ pc' = "p2_write"
               /\ hist' = [hist EXCEPT !.created =
                             hist.created \cup {OutputFilename(Len(p1.temp_files), p2.i)}]
               /\ UNCHANGED result
            \/ /\ Fault
               /\ dir' = dir
    /\ UNCHANGED <<scan, inputs, outdir, config, p1, fl, run, prev>>

\* the write_all loop without the flush: the bytes stay in the BufWriter
P2WriteUnflushed ==
    /\ pc = "p2_write"
    /\ p2' = [p2 EXCEPT !.output_files =
                 Append(p2.output_files, OutputFilename(Len(p1.temp_files), p2.i))]
    /\ pc' = "p2_remove"
    /\ UNCHANGED <<scan, inputs, outdir, dir, config, result, p1, fl, run, prev, hist>>

\* the write_all loop, writer.flush().await? and output_files.push(output_path)
P2Write ==
    /\ pc = "p2_write"
    /\ LET name  == OutputFilename(Len(p1.temp_files), p2.i)
           bytes == Emit(p2.lines)
       IN  \/ /\ dir' = Put(dir, name, bytes)
              /\ p2' = [p2 EXCEPT !.output_files = Append(p2.output_files, name)]
              /\ pc' = "p2_remove"
              /\ hist' = [hist EXCEPT !.flushed = hist.flushed \cup {name}]
              /\ UNCHANGED result
           \/ /\ \E k \in 0 .. Len(bytes) - 1 : dir' = Put(dir, name, Take(bytes, k))
              /\ Fault
              /\ p2' = p2
    /\ UNCHANGED <<scan, inputs, outdir, config, p1, fl, run, prev>>

\* tokio::fs::remove_file(temp_file).await?
P2Remove ==
    /\ pc = "p2_remove"
    /\ \/ /\ dir' = Remove(dir, p1.temp_files[p2.i + 1])
          /\ hist' = [hist EXCEPT !.removed = hist.removed \cup {p1.temp_files[p2.i + 1]}]
          /\ NextBucket(p2)
       \/ /\ Fault
          /\ UNCHANGED <<dir, p2>>
    /\ UNCHANGED <<scan, inputs, outdir, config, p1, fl, run, prev>>

----------------------------------------------------------------------------
(* The second run *)

\* the same configuration is run again on the directory the first run left
Rerun ==
    /\ pc = "done"
    /\ run = 1
    /\ result \in {"ok", "err"}
    /\ run' = 2
    /\ prev' = [result |-> result, output_files |-> p2.output_files,
                dir |-> dir, stale |-> hist.stale]
    /\ pc' = "new"
    /\ result' = "none"
    /\ p1' = P1Init
    /\ fl' = FlInit
    /\ p2' = P2Init
    /\ hist' = [HistInit EXCEPT !.budget = hist.budget]
    /\ UNCHANGED <<scan, inputs, outdir, dir, config>>

Next ==
    \/ New
    \/ Phase1Start
    \/ OpenInput
    \/ ReadLine
    \/ FlushStart
    \/ FlushOpen
    \/ FlushWrite
    \/ FlushWriter
    \/ Phase2Start
    \/ P2Open
    \/ P2Read
    \/ P2Create
    \/ P2Write
    \/ P2Remove
    \/ Rerun

Spec == Init /\ [][Next]_vars

----------------------------------------------------------------------------
(* Three input files of up to two lines each, no I/O failure, and a second *)
(* run of the configuration with its input paths listed in another order.  *)

WidePaths == {1, 2, 3}

\* decoded byte streams of the input files
WideContents ==
    { <<>>,
      <<"c", LF>>,
      <<"a", LF, "b", LF>>,
      <<SP, LF, "b">> }

\* on-disk sizes of the first input file; the others are stored in 0 bytes
WideSizes == {0, MiB + 1}

WideInputs ==
    {[p \in WidePaths |-> [exists |-> TRUE,
                           size   |-> IF p = 1 THEN size ELSE 0,
                           bytes  |-> bytes[p]]] :
        size \in WideSizes, bytes \in [WidePaths -> WideContents]}

WideSeeds == {None, Some(<<0, 0, 0, 5>>)}

InitWide ==
    /\ inputs \in WideInputs
    /\ outdir = "dir"
    /\ dir = NoFiles
    /\ config \in [input_files : Orders(WidePaths), max_size_mb : {1}, seed : WideSeeds]
    /\ pc = "new"
    /\ result = "none"
    /\ p1 = P1Init
    /\ fl = FlInit
    /\ p2 = P2Init
    /\ run = 1
    /\ prev = PrevInit
    /\ hist = HistInit
    /\ scan = ScanIdle

\* Vec::reverse
Reverse(s) == [k \in DOMAIN s |-> s[Len(s) + 1 - k]]

\* a seeded configuration that lists the same input paths in the opposite
\* order is run on the directory the first run left
RerunReordered ==
    /\ pc = "done"
    /\ run = 1
    /\ result \in {"ok", "err"}
    /\ config.seed # None
    /\ run' = 2
    /\ config' = [config EXCEPT !.input_files = Reverse(config.input_files)]
    /\ prev' = [result |-> result, output_files |-> p2.output_files,
                dir |-> dir, stale |-> hist.stale, assigned |-> hist.assigned]
    /\ pc' = "new"
    /\ result' = "none"
    /\ p1' = P1Init
    /\ fl' = FlInit
    /\ p2' = P2Init
    /\ hist' = [HistInit EXCEPT !.budget = hist.budget]
    /\ UNCHANGED <<scan, inputs, outdir, dir>>

NextWide ==
    \/ New
    \/ Phase1Start
    \/ OpenInput
    \/ ReadLine
    \/ FlushStart
    \/ FlushOpen
    \/ FlushWrite
    \/ FlushWriter
    \/ Phase2Start
    \/ P2Open
    \/ P2Read
    \/ P2Create
    \/ P2Write
    \/ P2Remove
    \/ RerunReordered

SpecWide == InitWide /\ [][NextWide]_vars

----------------------------------------------------------------------------
(* One run of two fixed input files under every seed whose limbs are at or *)
(* next to the ends of their range, so that the carry of seed + 1 stops at *)
(* every limb and runs off the last one.                                   *)

SeedLimbs == {0, 1, Limb - 2, Limb - 1}

SeedSpace == {Some(<<a, b, c, d>>) : a, b, c, d \in SeedLimbs}

\* two files of one line each; the first is stored in 0 bytes (one bucket)
\* or in more than a mebibyte (two buckets)
SeedInputs ==
    {[p \in Paths |-> IF p = 1
                      THEN [exists |-> TRUE, size |-> size, bytes |-> <<"a", LF>>]
                      ELSE [exists |-> TRUE, size |-> 0, bytes |-> <<SP, LF, "b">>]] :
        size \in Sizes}

InitSeeds ==
    /\ inputs \in SeedInputs
    /\ outdir = "dir"
    /\ dir = NoFiles
    /\ config \in [input_files : {<<1, 2>>}, max_size_mb : {1}, seed : SeedSpace]
    /\ pc = "new"
    /\ result = "none"
    /\ p1 = P1Init
    /\ fl = FlInit
    /\ p2 = P2Init
    /\ run = 1
    /\ prev = PrevInit
    /\ hist = HistInit
    /\ scan = ScanIdle

NextRun ==
    \/ New
    \/ Phase1Start
    \/ OpenInput
    \/ ReadLine
    \/ FlushStart
    \/ FlushOpen
    \/ FlushWrite
    \/ FlushWriter
    \/ Phase2Start
    \/ P2Open
    \/ P2Read
    \/ P2Create
    \/ P2Write
    \/ P2Remove

SpecSeeds == InitSeeds /\ [][NextRun]_vars

----------------------------------------------------------------------------
(* One run of two input files in which no await blocks for ever: a pending *)
(* I/O operation completes or fails, and the code between two awaits runs  *)
(* to the next one.                                                        *)

\* decoded byte streams of the input files
LiveContents == {<<>>, <<"a", LF>>, <<SP, LF, "b">>}

LiveInputs ==
    {[p \in Paths |-> [exists |-> TRUE,
                       size   |-> IF p = 1 THEN size ELSE 0,
                       bytes  |-> bytes[p]]] :
        size \in Sizes, bytes \in [Paths -> LiveContents]}

InitLive ==
    /\ inputs \in LiveInputs
    /\ outdir = "dir"
    /\ dir = NoFiles
    /\ config \in [input_files : {<<1, 2>>}, max_size_mb : {0, 1},
                    seed : {None, Some(<<0, 0, 0, 5>>)}]
    /\ pc = "new"
    /\ result = "none"
    /\ p1 = P1Init
    /\ fl = FlInit
    /\ p2 = P2Init
    /\ run = 1
    /\ prev = PrevInit
    /\ hist = [HistInit EXCEPT !.budget = MaxFaults]
    /\ scan = ScanIdle

SpecLive == InitLive /\ [][NextRun]_vars /\ WF_vars(NextRun)

----------------------------------------------------------------------------
(* collect_files_by_extension (src/src/main.rs).  A path is its sequence of *)
(* characters; the file system is a function from the paths that exist to *)
(* what each resolves to, "file" or "dir".                                 *)

\* the entries below the scanned root that a file system of the model may hold
MaxEntries == 4

\* the ASCII code of a character
CharCode(c) ==
    CASE c = "." -> 46 [] c = "/" -> 47 [] c = "J" -> 74 [] c = "a" -> 97
      [] c = "b" -> 98 [] c = "c" -> 99 [] c = "d" -> 100 [] c = "g" -> 103
      [] c = "j" -> 106 [] c = "s" -> 115 [] c = "x" -> 120 [] c = "z" -> 122

\* str::ends_with
EndsWith(s, suffix) ==
    Len(suffix) <= Len(s) /\ Drop(s, Len(s) - Len(suffix)) = suffix

\* str::starts_with
StartsWith(s, prefix) == Len(prefix) <= Len(s) /\ Take(s, Len(prefix)) = prefix

RECURSIVE Components(_)
\* Path::components: the parts between the separators
Components(path) ==
    IF \E k \in DOMAIN path : path[k] = "/"
    THEN LET k == CHOOSE i \in DOMAIN path :
                      path[i] = "/" /\ \A m \in 1 .. i - 1 : path[m] # "/"
         IN  <<Take(path, k - 1)>> \o Components(Drop(path, k))
    ELSE <<path>>

RECURSIVE BytesLess(_, _)
\* the order of two file names: byte by byte, a proper prefix first
BytesLess(s, t) ==
    IF t = <<>> THEN FALSE
    ELSE IF s = <<>> THEN TRUE
    ELSE IF Head(s) # Head(t) THEN CharCode(Head(s)) < CharCode(Head(t))
    ELSE BytesLess(Tail(s), Tail(t))

RECURSIVE ComponentsLess(_, _)
ComponentsLess(ps, qs) ==
    IF qs = <<>> THEN FALSE
    ELSE IF ps = <<>> THEN TRUE
    ELSE IF Head(ps) # Head(qs) THEN BytesLess(Head(ps), Head(qs))
    ELSE ComponentsLess(Tail(ps), Tail(qs))

\* Ord for PathBuf: component by component
PathLess(p, q) == ComponentsLess(Components(p), Components(q))

RECURSIVE InsertPath(_, _)
InsertPath(x, s) ==
    IF s = <<>> THEN <<x>>
    ELSE IF PathLess(Head(s), x) THEN <<Head(s)>> \o InsertPath(x, Tail(s))
    ELSE <<x>> \o s

RECURSIVE SortPaths(_)
\* files.sort()
SortPaths(s) == IF s = <<>> THEN <<>> ELSE InsertPath(Head(s), SortPaths(Tail(s)))

\* Path::is_dir and Path::is_file
IsDir(fs, path) == path \in DOMAIN fs /\ fs[path] = "dir"
IsFile(fs, path) == path \in DOMAIN fs /\ fs[path] = "file"

\* a walk that descends into subdirectories
ReadDirRecursive(fs, d) ==
    {path \in DOMAIN fs : Len(path) > Len(d) + 1 /\ StartsWith(path, d \o <<"/">>)}

\* fs::read_dir: the entries directly inside d
ReadDir(fs, d) ==
    {path \in DOMAIN fs :
        /\ Len(path) > Len(d) + 1
        /\ StartsWith(path, d \o <<"/">>)
        /\ \A k \in Len(d) + 2 .. Len(path) : path[k] # "/"}

\* format!(".{}", extension) and format!(".{}.gz", extension)
TargetExtension(extension) == <<".">> \o extension
TargetExtensionGz(extension) == <<".">> \o extension \o <<".", "g", "z">>

ScanRoot == <<"d">>
ScanSubdir == <<"d", "/", "s", ".", "j">>

\* what may exist below the root
ScanCandidates ==
    [p \in { <<"d", "/", "b", ".", "j">>,
             <<"d", "/", "a", ".", "j">>,
             <<"d", "/", "a", ".", "j", ".", "g", "z">>,
             <<"d", "/", "a", ".", "J">>,
             <<"d", "/", "a", "j">>,
             <<"d", "/", "a", ".", "j", "x">>,
             ScanSubdir,
             ScanSubdir \o <<"/", "c", ".", "j">> }
        |-> IF p = ScanSubdir THEN "dir" ELSE "file"]

\* the file systems of the model: the root directory and a few entries below it
ScanFileSystems ==
    {[p \in S \cup {ScanRoot} |-> IF p = ScanRoot THEN "dir" ELSE ScanCandidates[p]] :
        S \in {T \in SUBSET DOMAIN ScanCandidates :
                  /\ Cardinality(T) <= MaxEntries
                  /\ \A p \in T : StartsWith(p, ScanSubdir \o <<"/">>) => ScanSubdir \in T}}

\* the dir argument: the root, a subdirectory, or a path that is a file or missing
ScanDirs == {ScanRoot, ScanSubdir, <<"d", "/", "b", ".", "j">>}

\* the extension argument
ScanExtensions == {<<"j">>, <<"J">>}

ScanErr(e) == [ok |-> FALSE, err |-> e]
ScanOk(files) == [ok |-> TRUE, files |-> files]

InitScan ==
    /\ inputs = [p \in Paths |-> [exists |-> FALSE, size |-> 0, bytes |-> <<>>]]
    /\ outdir = "dir"
    /\ dir = NoFiles
    /\ config = [input_files |-> <<>>, max_size_mb |-> 1, seed |-> None]
    /\ pc = "done"
    /\ result = "none"
    /\ p1 = P1Init
    /\ fl = FlInit
    /\ p2 = P2Init
    /\ run = 2
    /\ prev = PrevInit
    /\ hist = HistInit
    /\ \E fs \in ScanFileSystems, d \in ScanDirs, e \in ScanExtensions :
          scan = [pc |-> "start", fs |-> fs, dir |-> d, extension |-> e,
                  pending |-> {}, files |-> <<>>, result |-> None]

ScanUnchanged ==
    UNCHANGED <<inputs, outdir, dir, config, pc, result, p1, fl, p2, run, prev, hist>>

\* if !dir_path.is_dir() { return Err(..) } and fs::read_dir(dir_path)?
ScanStart ==
    /\ scan.pc = "start"
    /\ \/ /\ ~IsDir(scan.fs, scan.dir)
          /\ scan' = [scan EXCEPT !.pc = "done", !.result = Some(ScanErr("not a directory"))]
       \/ /\ IsDir(scan.fs, scan.dir)
          /\ scan' = [scan EXCEPT !.pc = "entries",
                                  !.pending = ReadDir(scan.fs, scan.dir)]
       \/ \* read_dir fails
          /\ IsDir(scan.fs, scan.dir)
          /\ scan' = [scan EXCEPT !.pc = "done", !.result = Some(ScanErr("io"))]
    /\ ScanUnchanged

\* one iteration of `for entry in fs::read_dir(dir_path)?`: the directory
\* yields its entries in an order of its own
ScanEntry ==
    /\ scan.pc = "entries"
    /\ \E path \in scan.pending :
          \/ scan' = [scan EXCEPT
                        !.pending = scan.pending \ {path},
                        !.files =
                            IF /\ IsFile(scan.fs, path)
                               /\ \/ EndsWith(path, TargetExtension(scan.extension))
                                  \/ EndsWith(path, TargetExtensionGz(scan.extension))
                            THEN Append(scan.files, path)
                            ELSE scan.files]
          \/ \* let entry = entry?
             scan' = [scan EXCEPT !.pc = "done", !.result = Some(ScanErr("io"))]
    /\ ScanUnchanged

\* if files.is_empty() { return Err(..) } ; files.sort() ; Ok(files)
ScanFinish ==
    /\ scan.pc = "entries"
    /\ scan.pending = {}
    /\ scan' = [scan EXCEPT
                  !.pc = "done",
                  !.result = IF scan.files = <<>>
                             THEN Some(ScanErr("no files found"))
                             ELSE Some(ScanOk(SortPaths(scan.files)))]
    /\ ScanUnchanged

NextScan ==
    \/ ScanStart
    \/ ScanEntry
    \/ ScanFinish

SpecScan == InitScan /\ [][NextScan]_vars

----------------------------------------------------------------------------
(* Properties *)

Count(x, s) == Cardinality({k \in DOMAIN s : s[k] = x})

\* the same elements with the same multiplicities
SameBag(s, t) ==
    /\ Len(s) = Len(t)
    /\ \A x \in Range(s) \cup Range(t) : Count(x, s) = Count(x, t)

\* bucket_count
BucketCount == Len(p1.temp_files)

\* the non-blank lines of all input files of the configuration
InputLines ==
    Concat([k \in DOMAIN config.input_files |->
                NonBlank(AllLines(inputs[config.input_files[k]].bytes))])

\* the lines of the output files the run returned
OutputLines ==
    Concat([k \in DOMAIN p2.output_files |-> AllLines(dir[p2.output_files[k]])])

\* the lines Phase 1 of this run drew bucket index b for, in the order read
AssignedTo(b) == Group(hist.assigned, b)

\* C1 (as claimed): whenever shuffle_jsonl returns Ok, the multiset of lines
\* over the output files it wrote equals the multiset of non-blank lines over
\* the input files.
C1_LineConservation ==
    result = "ok" => SameBag(OutputLines, InputLines)

\* C2 (as claimed): when Phase 1 assigns no line to some bucket and no I/O
\* operation fails, Phase 2 skips that bucket: the run returns Ok, creates no
\* output file for the bucket and returns at most bucket_count paths.
C2_EmptyBucketSkip ==
    (/\ pc = "done"
     /\ hist.phase = 2
     /\ ~hist.fault
     /\ outdir = "dir"
     /\ \E b \in 0 .. BucketCount - 1 : AssignedTo(b) = <<>>)
    => /\ result = "ok"
       /\ \A b \in 0 .. BucketCount - 1 :
             AssignedTo(b) = <<>> /\ TempPath(b) \notin hist.stale
                => OutputFilename(BucketCount, b) \notin hist.created
       /\ Len(p2.output_files) <= BucketCount

\* what the run gave back to its caller: the path list when it returned Ok
Returned == IF result = "ok" THEN Some(p2.output_files) ELSE None

\* both runs returned Ok under a seed, each from a directory without temp files
TwoSeededRuns ==
    /\ run = 2
    /\ result = "ok"
    /\ prev.result = "ok"
    /\ config.seed # None
    /\ prev.stale = {}
    /\ hist.stale = {}

\* C3: two runs of one configuration with a seed, each started from a
\* directory that holds no temporary bucket file, return the same output file
\* names, and every output file has the same bytes in the same order,
\* whatever order each flush listed its bucket groups in.
C3_Determinism ==
    TwoSeededRuns =>
        /\ p2.output_files = prev.output_files
        /\ \A k \in DOMAIN p2.output_files :
              dir[p2.output_files[k]] = prev.dir[p2.output_files[k]]

\* two seeded runs that each wrote two output files
C3_Witness == TwoSeededRuns /\ Len(p2.output_files) = 2

\* the buckets Phase 2 loaded so far that held a non-blank line
LoadedNonEmpty == SelectSeq(hist.loaded, LAMBDA e : e[2] # <<>>)

\* the output file of a loaded bucket holds the bucket's lines in some order,
\* each followed by a line terminator, and nothing else
FullyWritten(e) ==
    LET name == OutputFilename(BucketCount, e[1])
    IN  /\ name \in DOMAIN dir
        /\ \E q \in Orders(DOMAIN e[2]) :
              dir[name] = Emit([k \in DOMAIN e[2] |-> e[2][q[k]]])

\* C4: a run that returns Ok returns exactly the paths of the output files
\* it wrote, one per non-empty bucket in ascending bucket order, and a path
\* is in the list only once its file is fully written and flushed; a run
\* that does not return Ok returns no list.
C4_AllOrNothing ==
    /\ Range(p2.output_files) \subseteq hist.flushed
    /\ \A k \in DOMAIN p2.output_files :
          /\ k <= Len(LoadedNonEmpty)
          /\ p2.output_files[k] = OutputFilename(BucketCount, LoadedNonEmpty[k][1])
          /\ FullyWritten(LoadedNonEmpty[k])
    /\ result = "ok" =>
          /\ Returned = Some(p2.output_files)
          /\ Len(p2.output_files) = Len(LoadedNonEmpty)
          /\ Range(p2.output_files) = hist.created
          /\ hist.loaded # <<>>
          /\ \A k \in DOMAIN hist.loaded : hist.loaded[k][1] = k - 1
          /\ Len(hist.loaded) = BucketCount
    /\ result # "ok" => Returned = None

\* a run returned a list of two paths
C4_Witness == result = "ok" /\ Len(p2.output_files) = 2

\* the bucket Phase 2 was handling when it failed
FailedBucket == p2.i

\* C5: when Phase 2 fails while it handles bucket i, every non-empty bucket
\* before i has its output file written and its temp file deleted, and every
\* bucket after i is untouched: no output file was created for it, and if it
\* received lines its temp file is as Phase 1 left it.
C5_ConsistentPrefix ==
    (result = "err" /\ hist.phase = 2) =>
        /\ Len(hist.loaded) \in {FailedBucket, FailedBucket + 1}
        /\ \A k \in 1 .. FailedBucket :
              /\ hist.loaded[k][1] = k - 1
              /\ hist.loaded[k][2] # <<>> =>
                    /\ FullyWritten(hist.loaded[k])
                    /\ ~Exists(TempPath(k - 1))
        /\ \A j \in FailedBucket + 1 .. BucketCount - 1 :
              /\ OutputFilename(BucketCount, j) \notin hist.created
              /\ TempPath(j) \notin hist.removed
              /\ AssignedTo(j) # <<>> =>
                    /\ Exists(TempPath(j))
                    /\ dir[TempPath(j)] = hist.p1dir[TempPath(j)]

\* Phase 2 failed at a bucket that follows an emitted bucket and precedes a
\* bucket that received lines
C5_Witness ==
    /\ result = "err"
    /\ hist.phase = 2
    /\ \E k \in 1 .. FailedBucket : hist.loaded[k][2] # <<>>
    /\ \E j \in FailedBucket + 1 .. BucketCount - 1 : AssignedTo(j) # <<>>

\* s is an initial part of t
IsPrefix(s, t) == Len(s) <= Len(t) /\ Take(t, Len(s)) = s

\* C6: a failure in Phase 1 ends the run at once with Err: Phase 2 never
\* starts, no output file is created, and no file of the output directory is
\* deleted or shortened while Phase 1 runs or fails.
C6_Phase1Abort ==
    [][ (hist.phase = 1 /\ hist'.phase = 1) =>
          /\ \A x \in DOMAIN dir : x \in DOMAIN dir' /\ IsPrefix(dir[x], dir'[x])
          /\ result' = "err" =>
                /\ pc' = "done"
                /\ p2' = P2Init
                /\ hist'.created = {}
                /\ hist'.removed = {} ]_vars

\* Phase 1 failed after it had written lines to a temp file
C6_Witness ==
    /\ result = "err"
    /\ hist.phase = 1
    /\ \E b \in 0 .. BucketCount - 1 : Exists(TempPath(b)) /\ dir[TempPath(b)] # <<>>

\* the await points of phase_1_distribute and flush_line_buffer
Phase1Points == {"p1_open", "p1_read", "fl_full", "fl_final", "fl_open", "fl_write",
                 "fl_flush", "p2_start"}

\* C7 (as claimed): every bucket's temp file exists from the start of Phase 1,
\* and after a run that returns Ok no temp file of a bucket index below
\* bucket_count is left in the output directory.
C7_TempLifecycle ==
    /\ pc \in Phase1Points => \A b \in 0 .. BucketCount - 1 : Exists(TempPath(b))
    /\ result = "ok" => \A b \in 0 .. BucketCount - 1 : ~Exists(TempPath(b))

\* C8 (as claimed): a run that returns Ok with exactly one non-empty bucket
\* names its only output file <output_name>.jsonl, without a part suffix.
C8_SingleOutputNaming ==
    (result = "ok" /\ Len(LoadedNonEmpty) = 1) =>
        p2.output_files = << <<"name", ".jsonl">> >>

\* the sum of the on-disk sizes of the input files
TotalInputSize ==
    LET RECURSIVE Sum(_)
        Sum(fs) == IF fs = <<>> THEN 0 ELSE inputs[Head(fs)].size + Sum(Tail(fs))
    IN  Sum(config.input_files)

\* ceil(a / b) for b > 0
CeilDiv(a, b) == (a + b - 1) \div b

\* C9 (as claimed): for every total input size and every ceiling that
\* ShuffleConfig::new accepts, the bucket count is computed without a panic
\* and equals max(1, ceil(total / max_bytes)).
C9_BucketCount ==
    hist.phase >= 1 =>
        /\ result # "panic"
        /\ config.max_size_mb > 0
        /\ BucketCount = Max1(CeilDiv(TotalInputSize, config.max_size_mb * MiB))

\* C10 (as claimed): when a listed input path does not exist, or the output
\* target exists but is not a directory, the run ends with the error before
\* Phase 1 starts: no line is read and no file is created.
C10_ConfigErrorsFirst ==
    (~AllInputsExist(config.input_files) \/ outdir = "file") =>
        /\ pc \in {"new", "done"}
        /\ pc = "done" => result = "config_err"
        /\ hist.phase = 0
        /\ hist.read = <<>>
        /\ DOMAIN dir = {}


\* C11: within one run each output path is created at most once, distinct
\* bucket indices have distinct output file names, and once an output file
\* has been written and flushed no later step of the run changes it.
C11_WrittenOnce ==
    [][ /\ \A i, j \in 0 .. BucketCount - 1 :
              i # j => OutputFilename(BucketCount, i) # OutputFilename(BucketCount, j)
        /\ (pc = "p2_create" /\ pc' = "p2_write") =>
              OutputFilename(BucketCount, p2.i) \notin hist.created
        /\ hist'.phase = 2 =>
              \A x \in hist.flushed : x \in DOMAIN dir' /\ dir'[x] = dir[x] ]_vars

\* a second output file was written after the first had been closed
C11_Witness == Cardinality(hist.flushed) = 2 /\ pc = "p2_remove"

\* every line of every input file of the configuration, blank ones included
AllInputLines ==
    Concat([k \in DOMAIN config.input_files |->
                AllLines(inputs[config.input_files[k]].bytes)])

\* the temp files of directory d
TempFiles(d) == {x \in DOMAIN d : IsTempPath(x)}

\* C13: no temp file is read and no output file is created before Phase 2;
\* when Phase 2 starts every input file has been read to its end and the
\* line buffer is empty; once Phase 2 has started no input line is read and
\* no temp file is created or appended to.
C13_PhaseOrdering ==
    [][ /\ hist.phase < 2 => hist.loaded = <<>> /\ hist.created = {}
        /\ hist.phase = 2 =>
              /\ SameBag(hist.read, AllInputLines)
              /\ p1.active_readers = <<>>
              /\ p1.line_buffer = LineBufferNew
        /\ (hist.phase = 2 /\ hist'.phase = 2) =>
              /\ hist'.read = hist.read
              /\ TempFiles(dir') \subseteq TempFiles(dir)
              /\ \A x \in TempFiles(dir') : dir'[x] = dir[x] ]_vars

\* Phase 2 loaded a bucket after Phase 1 had flushed its buffer twice
C13_Witness ==
    /\ hist.phase = 2
    /\ hist.loaded # <<>>
    /\ Len(hist.assigned) = 2
    /\ IsFull(AddLine(LineBufferNew, hist.assigned[1][1], hist.assigned[1][2]),
              MAX_BUFFER_SIZE)

\* C14: a bucket's temp file is removed only after the bucket's lines were
\* all written to its output file and the writer was flushed: in every
\* state, a removed temp file's bucket has its complete output file.
C14_WriteThenDelete ==
    \A b \in 0 .. BucketCount - 1 :
        TempPath(b) \in hist.removed =>
            /\ OutputFilename(BucketCount, b) \in hist.flushed
            /\ \E k \in DOMAIN hist.loaded :
                  /\ hist.loaded[k][1] = b
                  /\ hist.loaded[k][2] # <<>>
                  /\ FullyWritten(hist.loaded[k])

\* the temp files of two buckets were removed
C14_Witness == Cardinality(hist.removed) = 2


\* the lines that drew bucket index b in this run, in the order they were read
DrewIndex(b) ==
    LET sel == SelectSeq(hist.assigned, LAMBDA e : e[1] = b)
    IN  [k \in DOMAIN sel |-> sel[k][2]]

\* the bytes of bucket b's temp file in directory d; a temp file that was
\* never created holds none
TempBytes(d, b) == IF TempPath(b) \in DOMAIN d THEN d[TempPath(b)] ELSE <<>>

\* C15: when Phase 1 completes from a directory without temp files, bucket
\* b's temp file holds exactly the lines that drew index b, each followed by
\* a newline, in the order they were read, however many flushes there were
\* and whatever order each flush listed the bucket indices in.
C15_BucketContents ==
    (hist.phase = 2 /\ hist.stale = {}) =>
        /\ TempFiles(hist.p1dir) \subseteq {TempPath(b) : b \in 0 .. BucketCount - 1}
        /\ \A b \in 0 .. BucketCount - 1 :
              TempBytes(hist.p1dir, b) = Emit(DrewIndex(b))

\* Phase 1 completed after the first and the third line, which went through
\* different flushes, drew the same one of several buckets
C15_Witness ==
    /\ hist.phase = 2
    /\ hist.stale = {}
    /\ BucketCount >= 2
    /\ Len(hist.assigned) >= 3
    /\ hist.assigned[1][1] = hist.assigned[3][1]

\* C16: at most MAX_OPEN_INPUT_FILES input readers and at most
\* MAX_OPEN_OUTPUT_FILES bucket writers are open in any state.
C16_BoundedHandles ==
    /\ Len(p1.readers) <= MAX_OPEN_INPUT_FILES
    /\ Len(fl.writers) <= MAX_OPEN_OUTPUT_FILES

\* a full batch of readers and a full chunk of writers are open while more
\* input files and more bucket files wait for the next batch and chunk
C16_Witness ==
    /\ Len(p1.readers) = MAX_OPEN_INPUT_FILES
    /\ Len(p1.sorted_input_files) > MAX_OPEN_INPUT_FILES
    /\ Len(fl.writers) = MAX_OPEN_OUTPUT_FILES
    /\ Len(fl.file_indices) > MAX_OPEN_OUTPUT_FILES

\* the sum of the lengths of the buffered lines
BufferedBytes(b) ==
    LET RECURSIVE Sum(_)
        Sum(ls) == IF ls = <<>> THEN 0 ELSE Len(Head(ls)[2]) + Sum(Tail(ls))
    IN  Sum(b.lines)

\* the await points inside flush_line_buffer
FlushPoints == {"fl_open", "fl_write", "fl_flush"}

\* the points of phase_1_distribute after a line has been handled
HandledPoints == {"p1_open", "p1_read", "fl_final", "p2_start"}

\* the ceiling and the state after a flush
BufferCeilingRest ==
    /\ pc \in HandledPoints => p1.line_buffer.total_size < MAX_BUFFER_SIZE
    /\ pc = "fl_full" => IsFull(p1.line_buffer, MAX_BUFFER_SIZE)

\* a flush that returned Ok left the buffer empty
FlushLeavesEmpty ==
    (pc \in FlushPoints /\ pc' \notin FlushPoints /\ result' = "none") =>
        p1'.line_buffer = LineBufferNew

\* C17 (as claimed): total_size equals the sum of the lengths of the buffered
\* lines in every state; after each line has been handled total_size is below
\* the threshold; after every successful flush the buffer is empty with
\* total_size 0.
C17_BufferCeiling ==
    [][ /\ hist.phase = 1 =>
              /\ p1.line_buffer.total_size = BufferedBytes(p1.line_buffer)
              /\ BufferCeilingRest
        /\ FlushLeavesEmpty ]_vars

\* C17 (amended): the same, with the equality required in every state
\* outside the body of flush_line_buffer.
C17_BufferCeilingOutsideFlush ==
    [][ /\ (hist.phase = 1 /\ pc \notin FlushPoints) =>
              p1.line_buffer.total_size = BufferedBytes(p1.line_buffer)
        /\ hist.phase = 1 => BufferCeilingRest
        /\ FlushLeavesEmpty ]_vars

\* a flush on a full buffer returned and the next line was buffered
C17_Witness ==
    /\ pc = "p1_read"
    /\ Len(hist.assigned) = 3
    /\ Len(p1.line_buffer.lines) = 1

\* the lines of input file f
FileLines(f) == AllLines(inputs[f].bytes)

\* the input paths in ascending order
AscendingPaths ==
    CHOOSE q \in Orders(Range(config.input_files)) :
        \A i, j \in DOMAIN q : i < j => q[i] < q[j]

\* pass k over a batch, given as the lines of its files: every file that has
\* not reported its end before gives its k-th line, or reports its end
PassReads(batch, k) ==
    Concat([j \in DOMAIN batch |->
        LET lines == batch[j].lines
        IN  IF Len(lines) < k - 1 THEN <<>>
            ELSE IF k <= Len(lines) THEN << <<batch[j].path, Some(lines[k])>> >>
            ELSE << <<batch[j].path, None>> >>])

\* the passes over a batch until every file has reported its end
BatchReads(batch) ==
    LET most == CHOOSE n \in {Len(batch[j].lines) : j \in DOMAIN batch} :
                    \A j \in DOMAIN batch : Len(batch[j].lines) <= n
    IN  Concat([k \in 1 .. most + 1 |-> PassReads(batch, k)])

\* the reads of a whole Phase 1, batch after batch of the sorted files
RoundRobinReads ==
    LET paths == AscendingPaths
        files == [k \in DOMAIN paths |-> [path |-> paths[k], lines |-> FileLines(paths[k])]]
        size  == MAX_OPEN_INPUT_FILES
    IN  Concat([c \in 1 .. CeilDiv(Len(files), size) |->
                   BatchReads(SubSeq(files, (c - 1) * size + 1, Min(c * size, Len(files))))])

\* C18: the reads of Phase 1 are the round-robin reads: batch after batch of
\* the sorted files, pass after pass, one line per pass from every file that
\* has not reported its end, in sorted order; a file is not read again after
\* it reported its end.
C18_RoundRobin ==
    (hist.phase >= 1 /\ result # "panic") =>
        LET expected == RoundRobinReads
        IN  /\ IsPrefix(hist.reads, expected)
            /\ hist.phase = 2 => hist.reads = expected

\* Phase 1 completed on a first batch whose first file is empty and whose
\* second file has two lines, and a second batch with a line
C18_Witness ==
    /\ hist.phase = 2
    /\ Len(AscendingPaths) = 3
    /\ FileLines(AscendingPaths[1]) = <<>>
    /\ Len(FileLines(AscendingPaths[2])) = 2
    /\ FileLines(AscendingPaths[3]) # <<>>

RECURSIVE TrimStart(_)
TrimStart(s) == IF s # <<>> /\ Head(s) \in {SP, CR, LF} THEN TrimStart(Tail(s)) ELSE s

RECURSIVE TrimEnd(_)
TrimEnd(s) ==
    IF s # <<>> /\ s[Len(s)] \in {SP, CR, LF} THEN TrimEnd(SubSeq(s, 1, Len(s) - 1)) ELSE s

\* the line is empty after trimming
EmptyAfterTrim(line) == TrimEnd(TrimStart(line)) = <<>>

RECURSIVE AfterDraws(_, _, _)
\* the generator after k draws from 0 .. n - 1
AfterDraws(rng, k, n) ==
    IF k = 0 THEN rng
    ELSE AfterDraws((CHOOSE d \in RandomRange(rng, n) : TRUE).rng, k - 1, n)

\* the lines of the files xs of the output directory
LinesOf(xs) == UNION {Range(AllLines(dir[x])) : x \in xs}

\* C19: Phase 1 draws once for every non-blank line read and never for a
\* blank one; every drawn index is below bucket_count; a line that is empty
\* after trimming is never buffered, never written to a bucket and never in
\* an output file.
C19_BucketAssignment ==
    (hist.phase >= 1 /\ result # "panic") =>
        LET kept == SelectSeq(hist.read, LAMBDA l : ~EmptyAfterTrim(l))
        IN  /\ [k \in DOMAIN hist.assigned |-> hist.assigned[k][2]] = kept
            /\ p1.total_lines = Len(kept)
            /\ p1.rng = AfterDraws(Phase1Rng(config.seed), Len(kept), BucketCount)
            /\ \A k \in DOMAIN hist.assigned : hist.assigned[k][1] \in 0 .. BucketCount - 1
            /\ \A k \in DOMAIN p1.line_buffer.lines :
                  /\ p1.line_buffer.lines[k][1] \in 0 .. BucketCount - 1
                  /\ ~EmptyAfterTrim(p1.line_buffer.lines[k][2])
            /\ DOMAIN fl.lines_by_file \subseteq 0 .. BucketCount - 1
            /\ hist.stale = {} =>
                  \A l \in LinesOf(TempFiles(dir)) : ~EmptyAfterTrim(l)
            /\ \A l \in LinesOf(hist.created) : ~EmptyAfterTrim(l)

\* a run that read a blank line and drew for three others returned Ok
C19_Witness ==
    /\ result = "ok"
    /\ \E k \in DOMAIN hist.read : EmptyAfterTrim(hist.read[k])
    /\ Len(hist.assigned) >= 3
    /\ config.seed # None

\* C20: for a fixed seed, a configuration that lists the same input paths
\* in another order assigns the same lines to the same bucket indices in the
\* same sequence, and when both runs start without temp files and return Ok
\* they return the same output files with the same bytes.
C20_InputOrderIndependence ==
    (run = 2 /\ config.seed # None) =>
        /\ IsPrefix(hist.assigned, prev.assigned)
        /\ hist.phase = 2 => hist.assigned = prev.assigned
        /\ (result = "ok" /\ prev.result = "ok" /\ hist.stale = {} /\ prev.stale = {}) =>
              /\ p2.output_files = prev.output_files
              /\ \A k \in DOMAIN p2.output_files :
                    dir[p2.output_files[k]] = prev.dir[p2.output_files[k]]

\* both orders of three input files gave two output files
C20_Witness ==
    /\ run = 2
    /\ result = "ok"
    /\ prev.result = "ok"
    /\ hist.stale = {}
    /\ prev.stale = {}
    /\ Len(hist.assigned) >= 3
    /\ Len(p2.output_files) = 2

\* the value of a digit character
DigitValue(c) == (CHOOSE k \in DOMAIN Digit : Digit[k] = c) - 1

\* name is <output_name>_part_<four decimal digits>.jsonl
IsPartName(name) ==
    /\ Len(name) = 7
    /\ name[1] = "name"
    /\ name[2] = "_part_"
    /\ \A k \in 3 .. 6 : name[k] \in Range(Digit)
    /\ name[7] = ".jsonl"

\* the number the four digits of a part name spell
PartNumber(name) ==
    1000 * DigitValue(name[3]) + 100 * DigitValue(name[4])
        + 10 * DigitValue(name[5]) + DigitValue(name[6])

\* the bucket indices Phase 2 found a non-blank line in, in the order loaded
NonEmptyIndices == [k \in DOMAIN LoadedNonEmpty |-> LoadedNonEmpty[k][1]]

\* the bucket indices Phase 2 loaded and skipped as empty
SkippedIndices == {hist.loaded[k][1] : k \in {j \in DOMAIN hist.loaded : hist.loaded[j][2] = <<>>}}

\* C21: with more than one bucket, every output file the run creates is
\* named <output_name>_part_NNNN.jsonl where NNNN is the four-digit,
\* zero-padded original bucket index plus one; the returned paths carry the
\* part numbers of the non-empty buckets in ascending bucket order; no file
\* is created with the part number of a bucket skipped as empty, and the
\* buckets after it keep their own numbers.
C21_PartNumbering ==
    BucketCount > 1 =>
        /\ \A name \in hist.created : IsPartName(name)
        /\ {PartNumber(name) : name \in hist.created} \subseteq
              {i + 1 : i \in Range(NonEmptyIndices)}
        /\ Len(p2.output_files) <= Len(NonEmptyIndices)
        /\ \A k \in DOMAIN p2.output_files :
              /\ IsPartName(p2.output_files[k])
              /\ PartNumber(p2.output_files[k]) = NonEmptyIndices[k] + 1
        /\ \A i \in SkippedIndices :
              \A name \in hist.created : PartNumber(name) # i + 1
        /\ result = "ok" => Len(p2.output_files) = Len(NonEmptyIndices)

\* a run returned Ok after it skipped an empty bucket and wrote the output
\* file of a later bucket
C21_Witness ==
    /\ result = "ok"
    /\ BucketCount > 1
    /\ \E i \in SkippedIndices : \E j \in Range(NonEmptyIndices) : i < j
    /\ p2.output_files # <<>>

\* t is s + 1 modulo 2^64: the limbs above the carry are kept, the limb the
\* carry stops at is one more, the limbs below it were all ones and are zero;
\* or the carry runs off the top, every limb was all ones and is zero
IsSuccessor(s, t) ==
    \/ \E k \in 1 .. 4 :
          /\ \A j \in 1 .. k - 1 : t[j] = s[j]
          /\ s[k] < Limb - 1
          /\ t[k] = s[k] + 1
          /\ \A j \in k + 1 .. 4 : s[j] = Limb - 1 /\ t[j] = 0
    \/ \A j \in 1 .. 4 : s[j] = Limb - 1 /\ t[j] = 0

\* C22: under a configured seed s the Phase-1 generator is the one seeded
\* with s, advanced by one draw per assigned line and by nothing else; the
\* Phase-2 generator is another one, seeded with s + 1 modulo 2^64 and fresh
\* when Phase 2 starts; the two seeds differ for every s, and the run does
\* not panic.
C22_PhaseSeeds ==
    config.seed # None =>
        /\ result # "panic"
        /\ hist.phase >= 1 =>
              /\ p1.rng.kind = "seeded"
              /\ p1.rng.seed = config.seed
              /\ p1.rng = AfterDraws(SeedFromU64(config.seed[1]),
                                     Len(hist.assigned), BucketCount)
        /\ hist.phase = 2 =>
              /\ p2.rng.kind = "seeded"
              /\ p2.rng.seed # None
              /\ IsSuccessor(config.seed[1], p2.rng.seed[1])
              /\ p2.rng.seed # p1.rng.seed
              /\ hist.loaded = <<>> => p2.rng = SeedFromU64(p2.rng.seed[1])

\* Phase 2 started under the seed 2^64 - 1 after Phase 1 had drawn twice
C22_Witness ==
    /\ hist.phase = 2
    /\ config.seed = Some(U64Max)
    /\ p2.rng.seed = Some(<<0, 0, 0, 0>>)
    /\ Len(hist.assigned) = 2

\* C23 (as claimed): when an earlier run on the same output directory and
\* base name aborted and left temp files behind, a later run that returns Ok
\* emits exactly the multiset of its own non-blank input lines and leaves no
\* temp file in the output directory.
C23_RunIsolation ==
    (run = 2 /\ prev.result = "err" /\ hist.stale # {} /\ result = "ok") =>
        /\ SameBag(OutputLines, InputLines)
        /\ TempFiles(dir) = {}

\* the readers of the open batch that have not reported their end
Unfinished ==
    {p1.active_readers[k] :
        k \in {j \in DOMAIN p1.active_readers : j \notin Range(p1.finished_readers)}}

\* the reads Phase 1 still has to make: for every reader that has not
\* reported its end and every file of a later batch, one read per line left
\* and one that reports the end
ReadsLeft ==
    LET RECURSIVE Sum(_)
        Sum(S) == IF S = {} THEN 0
                  ELSE LET x == CHOOSE y \in S : TRUE IN x[3] + Sum(S \ {x})
        open  == {<<"open", r,
                    Len(LinesFrom(inputs[p1.sorted_input_files[p1.batch + r - 1]].bytes,
                                  p1.readers[r])) + 1>> : r \in Unfinished}
        later == {<<"later", k, Len(FileLines(p1.sorted_input_files[k])) + 1>> :
                    k \in p1.batch + Len(p1.readers) .. Len(p1.sorted_input_files)}
    IN  Sum(open \cup later)

\* a read that completed either gave a line or took its reader out of the
\* unfinished ones: one read less is left
PassProgress ==
    (pc = "p1_read" /\ result' = "none") => ReadsLeft' = ReadsLeft - 1

\* a run that was started ends, in one way or another
RunEnds == (pc = "ready") ~> (pc = "done")

\* the round-robin loop over a batch ends
LoopEnds == (pc = "p1_read") ~> (p1.active_readers = <<>> \/ pc = "done")

\* C24 (as claimed): when no I/O operation blocks for ever, a run that was
\* started eventually returns Ok or Err; every read of the round-robin loop
\* yields a line or retires its reader, and the active set eventually
\* becomes empty unless the run returns Err first.
C24_Termination ==
    /\ (pc = "ready") ~> (result \in {"ok", "err"})
    /\ [][PassProgress]_vars
    /\ (pc = "p1_read") ~> (p1.active_readers = <<>> \/ result = "err")

\* the last component of a path, and the path without it
FileName(path) == LET c == Components(path) IN c[Len(c)]
DirName(path) == Take(path, Len(path) - Len(FileName(path)) - 1)

\* the files directly inside the scanned directory that carry the extension
ScanMatches ==
    {path \in DOMAIN scan.fs :
        /\ scan.fs[path] = "file"
        /\ DirName(path) = scan.dir
        /\ \/ EndsWith(path, <<".">> \o scan.extension)
           \/ EndsWith(path, <<".">> \o scan.extension \o <<".", "g", "z">>)}

Ascending(files) == \A i, j \in DOMAIN files : i < j => PathLess(files[i], files[j])

\* C12: when no read of the directory fails, collect_files_by_extension
\* returns, in ascending order and each once, exactly the regular files
\* directly inside d whose path ends with ".e" or ".e.gz"; it returns an
\* error when d is not a directory and when no file matches.
C12_DirectoryScan ==
    (scan.pc = "done" /\ scan.result # Some(ScanErr("io"))) =>
        IF ~IsDir(scan.fs, scan.dir)
        THEN scan.result = Some(ScanErr("not a directory"))
        ELSE IF ScanMatches = {}
        THEN scan.result = Some(ScanErr("no files found"))
        ELSE /\ scan.result[1].ok
             /\ Range(scan.result[1].files) = ScanMatches
             /\ Len(scan.result[1].files) = Cardinality(ScanMatches)
             /\ Ascending(scan.result[1].files)

\* a scan returned two files in another order than the directory listed them,
\* and passed over a file with the extension in a subdirectory
C12_Witness ==
    /\ scan.pc = "done"
    /\ scan.result # None
    /\ scan.result[1].ok
    /\ Len(scan.result[1].files) >= 2
    /\ scan.result[1].files # scan.files
    /\ \E path \in DOMAIN scan.fs :
          /\ scan.fs[path] = "file"
          /\ DirName(path) # scan.dir
          /\ EndsWith(path, <<".">> \o scan.extension)

====
